---- MODULE Spec2Model ----
(***************************************************************************)
(* Model of the options toolkit scripts: options_scanner.py (volatility    *)
(* rank proxy, scanners, chain analyzer) and options_learning_guide.py     *)
(* (call / put scenario tables).                                           *)
(*                                                                         *)
(* Money amounts are integers in cents ($3.00 is 300).  A volatility rank  *)
(* 100 * sqrt(v_recent / v_all) is kept exactly as the fraction            *)
(* n / d = v_recent / v_all (its square over 100^2), so that every         *)
(* comparison the code makes with a threshold is decided exactly.          *)
(***************************************************************************)
EXTENDS Integers, Sequences, FiniteSets, TLC

(***************************************************************************)
(* Bounds of the model.                                                    *)
(***************************************************************************)
\* longest daily-bar history the data service returns for a request
MaxBars == 62

(***************************************************************************)
(* Arithmetic helpers.                                                     *)
(***************************************************************************)
Abs(x) == IF x < 0 THEN 0 - x ELSE x

\* Python's max(a, b) on comparable numbers: the first argument is kept
\* unless the second is strictly greater.
PyMax(a, b) == IF b > a THEN b ELSE a

RECURSIVE GCD(_, _)
GCD(a, b) == IF b = 0 THEN a ELSE GCD(b, a % b)

RECURSIVE SumSeq(_)
SumSeq(s) == IF Len(s) = 0 THEN 0 ELSE Head(s) + SumSeq(Tail(s))

SumSq(s) == SumSeq([i \in 1..Len(s) |-> s[i] * s[i]])

\* Python slice s[-k:] for k >= 1: the last k elements, or all of s when
\* it has fewer than k.
LastK(s, k) == IF Len(s) <= k THEN s ELSE SubSeq(s, Len(s) - k + 1, Len(s))

(***************************************************************************)
(* Daily bars returned by the market data service.                         *)
(***************************************************************************)
\* closing prices that occur in a history (0 models a corrupt bar)
CloseValues == {1, 2}

\* common denominator of all returns (c[i] - c[i-1]) / c[i-1]
CloseDenom == CHOOSE d \in 1..4 :
                 /\ \A c \in CloseValues : d % c = 0
                 /\ \A e \in 1..4 : (\A c \in CloseValues : e % c = 0) => d <= e

\* where a history changes its pattern, and the half-periods of the
\* oscillation before and after that point (0 = flat)
SplitPoints == {0, 20, 30}
PeriodsBefore == {0, 1, 2}
PeriodsAfter == {0, 1, 5, 16}

PatternClose(i, p) == IF p = 0 THEN 1 ELSE IF (i \div p) % 2 = 0 THEN 1 ELSE 2

\* n closes: pattern p1 up to bar `split`, pattern p2 after it; with
\* zero = TRUE the first close is 0
History(n, split, p1, p2, zero) ==
    [i \in 1..n |-> IF zero /\ i = 1 THEN 0
                    ELSE PatternClose(i, IF i <= split THEN p1 ELSE p2)]

\* a response of get_stock_bars: an exception, or a list of closes
BarsError == [err |-> TRUE, closes |-> <<>>]
BarsOk(cs) == [err |-> FALSE, closes |-> cs]

BarsResponses(lens) ==
    {BarsError} \cup
    {BarsOk(History(n, s, p1, p2, z)) :
        n \in lens, s \in SplitPoints, p1 \in PeriodsBefore,
        p2 \in PeriodsAfter, z \in BOOLEAN}

\* the histories the scanners and the chain analyzer are run on: a failed
\* request, one bar too few, and full-length histories of every pattern
SampleBars ==
    {BarsError, BarsOk(History(19, 0, 0, 1, FALSE))} \cup
    {BarsOk(History(MaxBars, 30, p1, p2, FALSE)) :
        p1 \in PeriodsBefore, p2 \in PeriodsAfter}

(***************************************************************************)
(* calculate_iv_rank                                                       *)
(***************************************************************************)
DAYS == 30
MIN_BARS == 20

None == [kind |-> "None", n |-> 0, d |-> 1]
\* the number 100 * sqrt(n / d)
Num(n, d) == [kind |-> "num", n |-> n \div GCD(n, d), d |-> d \div GCD(n, d)]
NaN == [kind |-> "nan", n |-> 0, d |-> 1]

IsNum(r) == r.kind = "num"
\* r < t and r > t for a rank r and a threshold t in 0..100
\* (t / 100)^2 in lowest terms keeps the products small
ThrNum(t) == (t \div GCD(t, 100)) * (t \div GCD(t, 100))
ThrDen(t) == (100 \div GCD(t, 100)) * (100 \div GCD(t, 100))
RankLT(r, t) == r.n * ThrDen(t) < ThrNum(t) * r.d
RankGT(r, t) == r.n * ThrDen(t) > ThrNum(t) * r.d
\* Python truthiness of a returned rank: None and 0 are falsy
Truthy(r) == IsNum(r) /\ r.n # 0

\* returns[i] = (closes[i] - closes[i-1]) / closes[i-1], times CloseDenom
Returns(closes) ==
    [i \in 1..(Len(closes) - 1) |->
        (closes[i + 1] - closes[i]) * (CloseDenom \div closes[i])]

\* pandas Series.std() squared (sample variance, ddof = 1) as a fraction
VarNum(xs) == Len(xs) * SumSq(xs) - SumSeq(xs) * SumSeq(xs)
VarDen(xs) == Len(xs) * (Len(xs) - 1)

\* (recent_vol / all_vol) * 100; 0.0 / 0.0 is nan for numpy floats
VolRatio(recent, all) ==
    IF VarNum(all) = 0
    THEN NaN
    ELSE Num(VarNum(recent) * VarDen(all), VarNum(all) * VarDen(recent))

\* max(0, x): nan > 0 is False, so 0 is kept
Max0(x) == IF x.kind = "num" /\ x.n > 0 THEN x ELSE Num(0, 1)
\* variant: the upper clamp is lost
Min100_Unclamped(y) == y
\* min(100, y)
Min100(y) == IF y.n < y.d THEN y ELSE Num(1, 1)

\* variant: only the lower clamp is applied
Clamp_NoUpper(x) == Max0(x)
\* min(100, max(0, x))
Clamp(x) == Min100(Max0(x))

\* variant: only the emptiness of the bars is tested, not their number
calculate_iv_rank_NoMinBars(resp, days) ==
    IF resp.err THEN None
    ELSE IF Len(resp.closes) = 0 THEN None
    ELSE IF \E i \in 1..(Len(resp.closes) - 1) : resp.closes[i] = 0 THEN None
    ELSE LET returns == Returns(resp.closes)
         IN  Clamp(VolRatio(LastK(returns, days), returns))

calculate_iv_rank(resp, days) ==
    IF resp.err THEN None
    ELSE IF Len(resp.closes) = 0 \/ Len(resp.closes) < MIN_BARS THEN None
    ELSE IF \E i \in 1..(Len(resp.closes) - 1) : resp.closes[i] = 0 THEN None
    ELSE LET returns == Returns(resp.closes)
         IN  Clamp(VolRatio(LastK(returns, days), returns))

(***************************************************************************)
(* Quotes and option chains returned by the brokerage.                     *)
(***************************************************************************)
\* mid prices (ask + bid) / 2 of the underlying, in cents
QuotePrices == {9800, 10000}

\* strikes (cents) and expiration dates (day numbers) of listed contracts
StrikeValues == {9000, 9700, 9900, 10300}
ExpirationDates == {7, 14}
\* most contracts in one chain response
MaxChain == 2

Contracts == [strike : StrikeValues, exp : ExpirationDates]
NoContract == [strike |-> 0, exp |-> 0]

\* the option_contracts of a response: contracts are distinct, and every
\* use either sorts them or takes a minimum, so a set stands for the list
ChainResponses == {cs \in SUBSET Contracts : Cardinality(cs) <= MaxChain}

\* a contract record with a non-positive strike, as a response could carry
MalformedContract == [strike |-> 0, exp |-> 7]
\* the option_contracts of a response to the chain analyzer
AnalyzerChains ==
    {cs \in SUBSET (Contracts \cup {MalformedContract}) :
        Cardinality(cs) <= MaxChain}

\* the elements min(options, key = lambda x: abs(x.strike_price - price))
\* can return, depending on the order of the list
ArgMinStrike(options, price) ==
    {c \in options :
        \A o \in options : Abs(c.strike - price) <= Abs(o.strike - price)}

(***************************************************************************)
(* options_learning_guide.py: lessons 2 and 3.                             *)
(***************************************************************************)
\* premium = 3.00
PREMIUM == 300

\* variant: the value is not floored at 0
CallValue_NoFloor(stock_price, strike) == stock_price - strike
\* option value of a call at expiration: max(stock_price - strike, 0)
CallValue(stock_price, strike) == PyMax(stock_price - strike, 0)

\* variant: the put is valued like a call
PutValue_Swapped(stock_price, strike) == PyMax(stock_price - strike, 0)
\* option value of a put at expiration: max(strike - stock_price, 0)
PutValue(stock_price, strike) == PyMax(strike - stock_price, 0)

\* (profit_loss / premium) * 100 as an exact fraction
PlPct(profit_loss, premium) == [num |-> profit_loss * 100, den |-> premium]

CallScenarios(cp, strike, premium) ==
    << [scenario |-> "Stock drops to",     stock_price |-> cp - 1000],
       [scenario |-> "Stock stays same",   stock_price |-> cp],
       [scenario |-> "Stock up slightly",  stock_price |-> strike + premium \div 2],
       [scenario |-> "Stock at breakeven", stock_price |-> strike + premium],
       [scenario |-> "Stock up nicely",    stock_price |-> strike + premium + 500],
       [scenario |-> "Stock up big",       stock_price |-> strike + premium + 1000] >>

PutScenarios(cp, strike, premium) ==
    << [scenario |-> "Stock up big",       stock_price |-> cp + 1000],
       [scenario |-> "Stock up slightly",  stock_price |-> cp + 500],
       [scenario |-> "Stock stays same",   stock_price |-> cp],
       [scenario |-> "Stock at breakeven", stock_price |-> strike - premium],
       [scenario |-> "Stock down nicely",  stock_price |-> strike - premium - 500],
       [scenario |-> "Stock down big",     stock_price |-> strike - premium - 1000] >>

\* variant: the sign of a short position
CallRow_Short(sc, strike, premium) ==
    LET option_value == CallValue(sc.stock_price, strike)
        profit_loss == premium - option_value
    IN  [scenario |-> sc.scenario, stock_price |-> sc.stock_price,
         option_value |-> option_value, profit_loss |-> profit_loss,
         pl_pct |-> PlPct(profit_loss, premium)]

\* one printed row of the call table
CallRow(sc, strike, premium) ==
    LET option_value == CallValue(sc.stock_price, strike)
        profit_loss == option_value - premium
    IN  [scenario |-> sc.scenario, stock_price |-> sc.stock_price,
         option_value |-> option_value, profit_loss |-> profit_loss,
         pl_pct |-> PlPct(profit_loss, premium)]

\* variant: the premium paid is not deducted
PutRow_NoPremium(sc, strike, premium) ==
    LET option_value == PutValue(sc.stock_price, strike)
        profit_loss == option_value
    IN  [scenario |-> sc.scenario, stock_price |-> sc.stock_price,
         option_value |-> option_value, profit_loss |-> profit_loss,
         pl_pct |-> PlPct(profit_loss, premium)]

\* one printed row of the put table
PutRow(sc, strike, premium) ==
    LET option_value == PutValue(sc.stock_price, strike)
        profit_loss == option_value - premium
    IN  [scenario |-> sc.scenario, stock_price |-> sc.stock_price,
         option_value |-> option_value, profit_loss |-> profit_loss,
         pl_pct |-> PlPct(profit_loss, premium)]

CallTable(cp, strike, premium) ==
    LET scs == CallScenarios(cp, strike, premium)
    IN  [i \in 1..Len(scs) |-> CallRow(scs[i], strike, premium)]

PutTable(cp, strike, premium) ==
    LET scs == PutScenarios(cp, strike, premium)
    IN  [i \in 1..Len(scs) |-> PutRow(scs[i], strike, premium)]

\* variant: the put's breakeven printed for the call
CallBreakeven_Minus(strike, premium) == strike - premium
\* breakeven printed under KEY INSIGHTS
CallBreakeven(strike, premium) == strike + premium
PutBreakeven(strike, premium) == strike - premium

(***************************************************************************)
(* options_scanner.py: get_stock_price and analyze_options_chain.          *)
(***************************************************************************)
\* a response of get_stock_latest_quote: an exception, or a mid price
QuoteError == [err |-> TRUE, mid |-> 0]
QuoteOk(p) == [err |-> FALSE, mid |-> p]
QuoteResponses == {QuoteError, QuoteOk(0)} \cup {QuoteOk(p) : p \in QuotePrices}

PriceNone == [kind |-> "None", v |-> 0]
PriceNum(p) == [kind |-> "num", v |-> p]

get_stock_price(resp) == IF resp.err THEN PriceNone ELSE PriceNum(resp.mid)

\* Python truthiness of a price: None and 0 are falsy
PriceTruthy(p) == p.kind = "num" /\ p.v # 0

\* the status line printed under the IV rank
IVStatus(rank) ==
    IF ~Truthy(rank) THEN "none"
    ELSE IF RankGT(rank, 75) THEN "VERY HIGH"
    ELSE IF RankGT(rank, 50) THEN "HIGH"
    ELSE IF RankLT(rank, 25) THEN "LOW"
    ELSE "MEDIUM"

\* sorted(set of expiration dates)[0]
FirstExpiration(cs) ==
    CHOOSE e \in {c.exp : c \in cs} : \A c \in cs : e <= c.exp

\* [c for c in contracts if c.expiration_date == exp], sorted by strike
RECURSIVE SortByStrike(_)
SortByStrike(cs) ==
    IF cs = {} THEN <<>>
    ELSE LET lo == CHOOSE c \in cs : \A o \in cs : c.strike <= o.strike
         IN  <<lo>> \o SortByStrike(cs \ {lo})

ExpChain(cs, exp) == SortByStrike({c \in cs : c.exp = exp})

\* min(seq, key = distance of the strike to the price): the first minimum
\* of the list, None for an empty list
AtmOf(seq, price) ==
    IF Len(seq) = 0 THEN NoContract
    ELSE seq[CHOOSE i \in 1..Len(seq) :
                /\ \A j \in 1..Len(seq) :
                      Abs(seq[i].strike - price) <= Abs(seq[j].strike - price)
                /\ \A j \in 1..(i - 1) :
                      Abs(seq[j].strike - price) > Abs(seq[i].strike - price)]

\* abs(distance) < price * 0.15
WithinWindow(distance, price) == Abs(distance) * 100 < price * 15

\* the moneyness label of a call row; distance = strike - price
CallMoneyness(distance) ==
    IF distance < -500 THEN "ITM"
    ELSE IF Abs(distance) < 200 THEN "ATM"
    ELSE "OTM"

\* the moneyness label of a put row; distance = price - strike
PutMoneyness(distance) ==
    IF distance < -500 THEN "ITM"
    ELSE IF Abs(distance) < 200 THEN "ATM"
    ELSE "OTM"

\* the rows printed for a non-empty list xs
RECURSIVE SelectRows(_, _)
SelectRows(rows, price) ==
    IF Len(rows) = 0 THEN <<>>
    ELSE (IF WithinWindow(Head(rows).distance, price) THEN <<Head(rows)>> ELSE <<>>)
         \o SelectRows(Tail(rows), price)

\* variant: the distance of a call is taken from the strike to the price
CallDistance_Flipped(strike, p) == p - strike
\* distance = call.strike_price - price
CallDistance(strike, p) == strike - p

\* distance = price - put.strike_price
PutDistance(strike, p) == p - strike

CallRows(calls, p) ==
    SelectRows([i \in 1..Len(calls) |->
                  [strike |-> calls[i].strike,
                   distance |-> CallDistance(calls[i].strike, p),
                   moneyness |-> CallMoneyness(CallDistance(calls[i].strike, p))]],
               p)

PutRows(puts, p) ==
    SelectRows([i \in 1..Len(puts) |->
                  [strike |-> puts[i].strike,
                   distance |-> PutDistance(puts[i].strike, p),
                   moneyness |-> PutMoneyness(PutDistance(puts[i].strike, p))]],
               p)

\* the block of STRATEGY RECOMMENDATIONS that is chosen
RecommendationBlock(rank) ==
    IF Truthy(rank) /\ RankGT(rank, 60) THEN "HIGH"
    ELSE IF Truthy(rank) /\ RankLT(rank, 40) THEN "LOW"
    ELSE "MEDIUM"

\* formatting the chosen block reads atm_put (HIGH) or atm_call and
\* atm_put (LOW); reading .strike_price of None raises AttributeError
RecommendationRaises(block, atm_call, atm_put) ==
    \/ block = "HIGH" /\ atm_put = NoContract
    \/ block = "LOW" /\ (atm_call = NoContract \/ atm_put = NoContract)

(***************************************************************************)
(* options_scanner.py: scan_high_iv_opportunities and                      *)
(* scan_low_iv_opportunities.                                              *)
(***************************************************************************)
\* length of the list of symbols handed to a scanner
NumSymbols == 2

\* quotes and chains the scanned symbols get
ScanQuotes == {QuoteError, QuoteOk(400), QuoteOk(10000), QuoteOk(25000),
               QuoteOk(60000)}
ScanChains == {cs \in ChainResponses :
                 \A c \in cs : c.exp = 7 /\ c.strike \in {9700, 10300}}

\* the lists of symbols a scanner is handed: symbols are numbered; the
\* custom watchlist of the menu is typed by the user and may repeat one
Watchlists == {[i \in 1..NumSymbols |-> i], [i \in 1..NumSymbols |-> 1]}

\* variant: an exception in the loop body drops the results so far
AfterException_Dropped(rs) == <<>>
\* except Exception as e: continue
AfterException(rs) == rs

\* default min_price / max_price of the two scanners
HIGH_MIN_PRICE == 500
HIGH_MAX_PRICE == 50000
LOW_MIN_PRICE == 1000
LOW_MAX_PRICE == 30000

\* if not price or price < min_price or price > max_price: continue
PriceSkipped(p, min_price, max_price) ==
    ~PriceTruthy(p) \/ p.v < min_price \/ p.v > max_price

\* if not iv_rank or iv_rank < 50: continue
HighRankSkipped(rank) == ~Truthy(rank) \/ RankLT(rank, 50)
\* if not iv_rank or iv_rank > 50: continue
LowRankSkipped(rank) == ~Truthy(rank) \/ RankGT(rank, 50)

\* n1 / d1 < n2 / d2 for fractions with positive denominators, by
\* comparing integer parts and then the reciprocals of the remainders
\* (the cross products of two ranks exceed 32-bit integers)
RECURSIVE FracLess(_, _, _, _)
FracLess(n1, d1, n2, d2) ==
    IF n1 \div d1 # n2 \div d2 THEN n1 \div d1 < n2 \div d2
    ELSE IF n2 % d2 = 0 THEN FALSE
    ELSE IF n1 % d1 = 0 THEN TRUE
    ELSE FracLess(d2, n2 % d2, d1, n1 % d1)

\* a < b for two numeric ranks
RankLess(a, b) == FracLess(a.n, a.d, b.n, b.d)

\* list.sort(key = iv_rank): stable insertion into an ascending list
RECURSIVE InsertAsc(_, _)
InsertAsc(sorted, r) ==
    IF Len(sorted) = 0 THEN <<r>>
    ELSE IF RankLess(r.iv_rank, Head(sorted).iv_rank)
         THEN <<r>> \o sorted
         ELSE <<Head(sorted)>> \o InsertAsc(Tail(sorted), r)

RECURSIVE SortAsc(_)
SortAsc(rs) ==
    IF Len(rs) = 0 THEN <<>>
    ELSE InsertAsc(SortAsc(SubSeq(rs, 1, Len(rs) - 1)), rs[Len(rs)])

\* list.sort(key = iv_rank, reverse = True): descending, equal keys keep
\* their original order
RECURSIVE InsertDesc(_, _)
InsertDesc(sorted, r) ==
    IF Len(sorted) = 0 THEN <<r>>
    ELSE IF RankLess(Head(sorted).iv_rank, r.iv_rank)
         THEN <<r>> \o sorted
         ELSE <<Head(sorted)>> \o InsertDesc(Tail(sorted), r)

RECURSIVE SortDesc(_)
SortDesc(rs) ==
    IF Len(rs) = 0 THEN <<>>
    ELSE InsertDesc(SortDesc(SubSeq(rs, 1, Len(rs) - 1)), rs[Len(rs)])

\* results[:10]
TOP_ROWS == 10
FirstK(rs, k) == IF Len(rs) <= k THEN rs ELSE SubSeq(rs, 1, k)

HighStrategy(r) == IF r.price < 20000 THEN "Covered Call" ELSE "Cash-Secured Put"
LowStrategy(r) == IF RankLT(r.iv_rank, 25) THEN "Long Call/Put" ELSE "Debit Spread"

HighPrinted(results) ==
    LET top == FirstK(SortDesc(results), TOP_ROWS)
    IN  [i \in 1..Len(top) |->
            [symbol |-> top[i].symbol, price |-> top[i].price,
             iv_rank |-> top[i].iv_rank, strategy |-> HighStrategy(top[i])]]

LowPrinted(results) ==
    LET top == FirstK(SortAsc(results), TOP_ROWS)
    IN  [i \in 1..Len(top) |->
            [symbol |-> top[i].symbol, price |-> top[i].price,
             iv_rank |-> top[i].iv_rank, strategy |-> LowStrategy(top[i])]]

(***************************************************************************)
(* advanced_options_trading.py: covered call and protective put.           *)
(*                                                                         *)
(* Per-contract amounts are in cents; an amount that involves the factor   *)
(* days / 365 is kept as a fraction num / den.                             *)
(***************************************************************************)
\* strikes of the chains the two strategy lessons are run on
AdvStrikeValues == {9000, 9500, 9700, 10300, 10800}
AdvContracts == [strike : AdvStrikeValues, exp : ExpirationDates]
\* most contracts in one chain response of a strategy lesson
MaxAdvChain == 3
AdvChains == {cs \in SUBSET AdvContracts : Cardinality(cs) <= MaxAdvChain}

Frac(n, d) == [num |-> n, den |-> d]
FracEq(a, b) == a.num * b.den = b.num * a.den
FracGE(a, b) == a.num * b.den >= b.num * a.den

\* sorted(contracts, key = strike): contracts of equal strike keep the
\* order of the response, which is not determined
RECURSIVE AscOrders(_)
AscOrders(cs) ==
    IF cs = {} THEN {<<>>}
    ELSE UNION {{<<c>> \o rest : rest \in AscOrders(cs \ {c})} :
                  c \in {x \in cs : \A o \in cs : x.strike <= o.strike}}

\* sorted(contracts, key = strike, reverse = True)
RECURSIVE DescOrders(_)
DescOrders(cs) ==
    IF cs = {} THEN {<<>>}
    ELSE UNION {{<<c>> \o rest : rest \in DescOrders(cs \ {c})} :
                  c \in {x \in cs : \A o \in cs : x.strike >= o.strike}}

\* calls[:5] and puts[:5]
TABLE_ROWS == 5

\* variant: the floor of the estimate is lost
CoveredPremium_NoFloor(distance) == Frac(distance * 10, 1)
\* max(0.5, distance * 0.1) * 100 dollars per contract
CoveredPremium(distance) == Frac(PyMax(5000, distance * 10), 1)

\* max(1.0, distance * 0.15 + (days_to_exp / 365) * current_price * 0.02) * 100
ProtectivePremium(distance, days_to_exp, cp) ==
    Frac(PyMax(10000 * 365, 15 * distance * 365 + 2 * days_to_exp * cp), 365)

\* max(1.0, (current_price - strike) * 0.15) * 100
ProtectiveExamplePremium(distance) == Frac(PyMax(10000, distance * 15), 1)

\* one row of the covered-call table
CoveredTableRow(call, cp) ==
    LET distance == call.strike - cp
        est_premium == CoveredPremium(distance)
        stock_gain == distance * 100
    IN  [strike |-> call.strike, exp |-> call.exp, distance |-> distance,
         est_premium |-> est_premium,
         total_profit |-> Frac(stock_gain * est_premium.den + est_premium.num,
                               est_premium.den)]

\* one row of the protective-put table
ProtectiveTableRow(put, cp) ==
    LET distance == cp - put.strike
        est_premium == ProtectivePremium(distance, put.exp, cp)
    IN  [strike |-> put.strike, exp |-> put.exp, distance |-> distance,
         est_premium |-> est_premium,
         max_loss |-> Frac(distance * 100 * est_premium.den + est_premium.num,
                           est_premium.den)]

\* the covered-call scenarios: label, price and outcome text only
CoveredScenarios(cp, strike) ==
    << [scenario |-> "Stock drops to", price |-> (cp * 95) \div 100,
        outcome |-> "Keep shares + premium"],
       [scenario |-> "Stock stays flat", price |-> cp,
        outcome |-> "Keep shares + premium"],
       [scenario |-> "Stock at strike", price |-> strike,
        outcome |-> "Shares called away at strike, keep premium"],
       [scenario |-> "Stock above strike", price |-> (strike * 105) \div 100,
        outcome |-> "Shares called away at strike, keep premium (miss upside)"] >>

ProtectiveScenarios(cp, strike) ==
    << [scenario |-> "CRASH: Stock drops 30%", price |-> (cp * 70) \div 100],
       [scenario |-> "DROP: Stock drops 15%",  price |-> (cp * 85) \div 100],
       [scenario |-> "At strike price",        price |-> strike],
       [scenario |-> "Flat: No change",        price |-> cp],
       [scenario |-> "UP: Stock gains 10%",    price |-> (cp * 110) \div 100],
       [scenario |-> "MOON: Stock gains 30%",  price |-> (cp * 130) \div 100] >>

\* variant: the put value is subtracted instead of added
ProtectiveRow_PutSubtracted(sc, cp, strike, est_premium) ==
    LET stock_pl == (sc.price - cp) * 100
        put_value == PyMax(strike - sc.price, 0) * 100
    IN  [scenario |-> sc.scenario, price |-> sc.price, stock_pl |-> stock_pl,
         put_value |-> put_value,
         net_pl |-> stock_pl - put_value - est_premium.num]

\* one row of the protective-put scenario table (est_premium has den 1)
ProtectiveRow(sc, cp, strike, est_premium) ==
    LET stock_pl == (sc.price - cp) * 100
        put_value == PyMax(strike - sc.price, 0) * 100
    IN  [scenario |-> sc.scenario, price |-> sc.price, stock_pl |-> stock_pl,
         put_value |-> put_value,
         net_pl |-> stock_pl + put_value - est_premium.num]

\* Max Loss printed under KEY INSIGHTS
ProtectiveMaxLoss(cp, strike, est_premium) ==
    (cp - strike) * 100 + est_premium.num

(***************************************************************************)
(* options_learning_guide.py: lessons 1 and 4.                             *)
(***************************************************************************)
\* calls[:10] and puts[:10]
CHAIN_ROWS == 10

\* "*" if abs(strike - current_price) < 5 else " "
StrikeMark(strike, cp) == IF Abs(strike - cp) < 500 THEN "*" ELSE " "

\* zip(calls[:10], puts[:10]) with the mark of each strike
ChainRows(calls, puts, cp) ==
    LET cs == FirstK(calls, CHAIN_ROWS)
        ps == FirstK(puts, CHAIN_ROWS)
        n == IF Len(cs) < Len(ps) THEN Len(cs) ELSE Len(ps)
    IN  [i \in 1..n |->
           [call_strike |-> cs[i].strike,
            call_mark |-> StrikeMark(cs[i].strike, cp),
            put_strike |-> ps[i].strike,
            put_mark |-> StrikeMark(ps[i].strike, cp)]]

\* next((c for c in calls if c.strike_price < current_price - 5), None)
ItmExample(calls, cp) ==
    IF \E i \in DOMAIN calls : calls[i].strike < cp - 500
    THEN calls[CHOOSE i \in DOMAIN calls :
                  /\ calls[i].strike < cp - 500
                  /\ \A j \in 1..(i - 1) : ~(calls[j].strike < cp - 500)]
    ELSE NoContract

\* next((c for c in calls if c.strike_price > current_price + 5), None)
OtmExample(calls, cp) ==
    IF \E i \in DOMAIN calls : calls[i].strike > cp + 500
    THEN calls[CHOOSE i \in DOMAIN calls :
                  /\ calls[i].strike > cp + 500
                  /\ \A j \in 1..(i - 1) : ~(calls[j].strike > cp + 500)]
    ELSE NoContract

(***************************************************************************)
(* advanced_options_trading.py: the menu and the paper trade.              *)
(***************************************************************************)
\* what the user can type at "Enter your choice (0-7): "
AdvChoices == {"0", "1", "2", "3", "4", "5", "6", "7", "8"}

\* variant: running all lessons includes the paper trade
Dispatch_WithTrade(c) ==
    CASE c = "1" -> <<"advanced_1">>
      [] c = "2" -> <<"advanced_2">>
      [] c = "3" -> <<"advanced_3">>
      [] c = "4" -> <<"advanced_4">>
      [] c = "5" -> <<"view_open_positions">>
      [] c = "6" -> <<"risk_management_guidelines">>
      [] c = "7" -> <<"advanced_1", "advanced_2", "advanced_3", "advanced_4",
                      "risk_management_guidelines">>
      [] OTHER   -> <<>>
\* the lessons the menu calls for a choice, in order
Dispatch(c) ==
    CASE c = "1" -> <<"advanced_1">>
      [] c = "2" -> <<"advanced_2">>
      [] c = "3" -> <<"advanced_3">>
      [] c = "4" -> <<"advanced_4">>
      [] c = "5" -> <<"view_open_positions">>
      [] c = "6" -> <<"risk_management_guidelines">>
      [] c = "7" -> <<"advanced_1", "advanced_2", "advanced_3",
                      "risk_management_guidelines">>
      [] OTHER   -> <<>>

Rest(ls) == IF ls = <<>> THEN <<>> ELSE Tail(ls)

\* what the user can type at "Proceed with paper trade? (yes/no): "
Answers == {"yes", "YES", "Yes", "no", "y", ""}
\* str.lower()
LowerCase(a) ==
    CASE a = "YES" -> "yes"
      [] a = "Yes" -> "yes"
      [] OTHER     -> a

\* the lessons of the menu that are called without their tables being kept
OtherLessons == {"advanced_1", "view_open_positions",
                 "risk_management_guidelines"}
\* how such a lesson can end: advanced_1 fetches a quote and a chain and
\* takes min() of the calls; view_open_positions catches every exception
OtherOutcomes(name) ==
    IF name = "advanced_1" THEN {"none", "APIError", "ValueError"}
    ELSE {"none"}

(***************************************************************************)
(* State.                                                                  *)
(***************************************************************************)
VARIABLES
    pc,             \* the function whose result is on screen, or "idle"
    bars,           \* the bars response of the last rank estimation
    iv_rank,        \* the value calculate_iv_rank returned
    current_price,  \* mid price of the underlying (cents), 0 before a quote
    atm,            \* the contract picked as at-the-money example
    scenarios,      \* rows of the printed profit/loss table
    breakeven,      \* the breakeven price printed with the table
    raised,         \* exception that ended the function, or "none"
    price,          \* what get_stock_price returned
    status,         \* the IV status line printed, or "none"
    exp_calls,      \* the calls of the first expiration, by strike
    exp_puts,       \* the puts of the first expiration, by strike
    call_rows,      \* the CALL rows printed by the chain analyzer
    put_rows,       \* the PUT rows printed by the chain analyzer
    recommendation, \* the recommendation block printed, or "none"
    message,        \* the early-exit message printed, or "none"
    symbols,        \* the list of symbols a scanner was handed
    caught,         \* what failed for the symbol a scanner handled last
    idx,            \* position of a scanner in its list of symbols
    results,        \* the results a scanner has collected
    printed,        \* the rows a scanner printed
    strategy_table, \* rows of the covered-call / protective-put table
    example,        \* the contract of the strategy example
    est_premium,    \* the premium estimated for the example
    strategy_rows,  \* the scenario rows of the strategy example
    max_loss,       \* the Max Loss printed for the protective put
    chain_rows,     \* the rows of the chain printed by lesson 1
    itm_call,       \* the ITM example of lesson 4
    otm_call,       \* the OTM example of lesson 4
    premium,        \* the premium paid in the payoff tables
    choice,         \* the choice read by the menu of the advanced lessons
    todo,           \* the lessons that menu still has to call
    answer,         \* the answer to the paper-trade confirmation prompt
    orders          \* the number of calls of submit_order in this run

vars == <<pc, bars, iv_rank, current_price, atm, scenarios, breakeven, raised,
          price, status, exp_calls, exp_puts, call_rows, put_rows,
          recommendation, message,
          symbols, caught, idx, results, printed,
          strategy_table, example, est_premium, strategy_rows, max_loss,
          chain_rows, itm_call, otm_call, premium,
          choice, todo, answer, orders>>

lessonVars == <<current_price, atm, scenarios, breakeven>>
chainVars == <<price, status, exp_calls, exp_puts, call_rows, put_rows,
               recommendation, message>>
scanVars == <<symbols, caught, idx, results, printed>>
advVars == <<strategy_table, example, est_premium, strategy_rows, max_loss>>
guideVars == <<chain_rows, itm_call, otm_call, premium>>
mainVars == <<choice, todo, answer, orders>>

Init ==
    /\ pc = "idle"
    /\ bars = BarsError
    /\ iv_rank = None
    /\ current_price = 0
    /\ atm = NoContract
    /\ scenarios = <<>>
    /\ breakeven = 0
    /\ raised = "none"
    /\ price = PriceNone
    /\ status = "none"
    /\ exp_calls = <<>>
    /\ exp_puts = <<>>
    /\ call_rows = <<>>
    /\ put_rows = <<>>
    /\ recommendation = "none"
    /\ message = "none"
    /\ symbols = <<>>
    /\ caught = "none"
    /\ idx = 0
    /\ results = <<>>
    /\ printed = <<>>
    /\ strategy_table = <<>>
    /\ example = NoContract
    /\ est_premium = Frac(0, 1)
    /\ strategy_rows = <<>>
    /\ max_loss = 0
    /\ chain_rows = <<>>
    /\ itm_call = NoContract
    /\ otm_call = NoContract
    /\ premium = 0
    /\ choice = "none"
    /\ todo = <<>>
    /\ answer = "none"
    /\ orders = 0

\* calculate_iv_rank(symbol) called on its own
CalculateIVRank ==
    /\ pc = "idle"
    /\ \E resp \in BarsResponses(0..MaxBars) :
          /\ bars' = resp
          /\ iv_rank' = calculate_iv_rank(resp, DAYS)
    /\ pc' = "calculate_iv_rank"
    /\ UNCHANGED <<lessonVars, chainVars, scanVars, advVars, guideVars, mainVars, raised>>

\* lesson_2_analyze_call_option
Lesson2 ==
    /\ pc = "idle"
    /\ pc' = "lesson_2"
    /\ UNCHANGED <<bars, iv_rank, chainVars, scanVars, advVars,
                   chain_rows, itm_call, otm_call, mainVars>>
    /\ \E cp \in QuotePrices, calls \in ChainResponses :
          /\ current_price' = cp
          /\ IF calls = {}
             THEN \* min() of an empty list
                  /\ raised' = "ValueError"
                  /\ UNCHANGED <<atm, scenarios, breakeven, premium>>
             ELSE \E atm_call \in ArgMinStrike(calls, cp) :
                  /\ atm' = atm_call
                  /\ scenarios' = CallTable(cp, atm_call.strike, PREMIUM)
                  /\ premium' = PREMIUM
                  /\ breakeven' = CallBreakeven(atm_call.strike, PREMIUM)
                  /\ raised' = "none"

\* lesson_3_analyze_put_option
Lesson3 ==
    /\ pc = "idle"
    /\ pc' = "lesson_3"
    /\ UNCHANGED <<bars, iv_rank, chainVars, scanVars, advVars,
                   chain_rows, itm_call, otm_call, mainVars>>
    /\ \E cp \in QuotePrices, puts \in ChainResponses :
          /\ current_price' = cp
          /\ IF puts = {}
             THEN /\ raised' = "ValueError"
                  /\ UNCHANGED <<atm, scenarios, breakeven, premium>>
             ELSE \E atm_put \in ArgMinStrike(puts, cp) :
                  /\ atm' = atm_put
                  /\ scenarios' = PutTable(cp, atm_put.strike, PREMIUM)
                  /\ premium' = PREMIUM
                  /\ breakeven' = PutBreakeven(atm_put.strike, PREMIUM)
                  /\ raised' = "none"

\* analyze_options_chain
AnalyzeOptionsChain ==
    /\ pc = "idle"
    /\ pc' = "analyze_options_chain"
    /\ UNCHANGED <<lessonVars, scanVars, advVars, guideVars, mainVars>>
    /\ \E quote \in QuoteResponses :
          /\ price' = get_stock_price(quote)
          /\ IF ~PriceTruthy(price')
             THEN /\ message' = "Could not get price"
                  /\ UNCHANGED <<bars, iv_rank, status, exp_calls, exp_puts, call_rows, put_rows,
                                 recommendation, raised>>
             ELSE \E resp \in SampleBars :
                  \E rank \in {calculate_iv_rank(resp, DAYS)} :
                  /\ bars' = resp
                  /\ iv_rank' = rank
                  /\ status' = IVStatus(rank)
                  /\ \/ \* get_option_contracts raises
                        /\ raised' = "APIError"
                        /\ UNCHANGED <<exp_calls, exp_puts, call_rows, put_rows,
                                       recommendation, message>>
                     \/ \E calls \in AnalyzerChains, puts \in AnalyzerChains :
                        IF calls = {} /\ puts = {}
                        THEN /\ message' = "No options available"
                             /\ UNCHANGED <<exp_calls, exp_puts, call_rows, put_rows,
                                            recommendation,
                                            raised>>
                        ELSE LET exp == FirstExpiration(calls \cup puts)
                                 atm_call == AtmOf(ExpChain(calls, exp), price'.v)
                                 atm_put == AtmOf(ExpChain(puts, exp), price'.v)
                                 block == RecommendationBlock(rank)
                             IN  /\ exp_calls' = ExpChain(calls, exp)
                                 /\ exp_puts' = ExpChain(puts, exp)
                                 /\ call_rows' = CallRows(exp_calls', price'.v)
                                 /\ put_rows' = PutRows(exp_puts', price'.v)
                                 /\ message' = "none"
                                 /\ IF RecommendationRaises(block, atm_call, atm_put)
                                    THEN /\ raised' = "AttributeError"
                                         /\ recommendation' = "none"
                                    ELSE /\ raised' = "none"
                                         /\ recommendation' = block

\* a scanner is called and starts its loop over the symbols
ScanStart ==
    /\ pc = "idle"
    /\ pc' \in {"scan_high", "scan_low"}
    /\ symbols' \in Watchlists
    /\ caught' = "none"
    /\ idx' = 1
    /\ results' = <<>>
    /\ UNCHANGED <<bars, iv_rank, lessonVars, chainVars, advVars, guideVars, mainVars, printed, raised>>

\* one iteration of the loop of scan_high_iv_opportunities
ScanHighSymbol ==
    /\ pc = "scan_high"
    /\ idx <= Len(symbols)
    /\ idx' = idx + 1
    /\ UNCHANGED <<pc, lessonVars, advVars, guideVars, mainVars, status, exp_calls, exp_puts,
                   call_rows, put_rows,
                   recommendation, message, printed, raised, symbols>>
    /\ \E quote \in ScanQuotes :
          /\ price' = get_stock_price(quote)
          /\ IF PriceSkipped(price', HIGH_MIN_PRICE, HIGH_MAX_PRICE)
             THEN /\ UNCHANGED <<bars, iv_rank, results>>
                  /\ caught' = IF quote.err THEN "price" ELSE "none"
             ELSE \E resp \in SampleBars :
                  \E rank \in {calculate_iv_rank(resp, DAYS)} :
                  /\ bars' = resp
                  /\ iv_rank' = rank
                  /\ IF HighRankSkipped(rank)
                     THEN /\ UNCHANGED results
                          /\ caught' = IF resp.err THEN "rank" ELSE "none"
                     ELSE \/ \* get_option_contracts raises: except, continue
                             /\ results' = AfterException(results)
                             /\ caught' = "chain"
                          \/ \E options \in ScanChains :
                             /\ caught' = "none"
                             /\ IF options = {}
                                THEN UNCHANGED results
                                ELSE \E atm_option \in ArgMinStrike(options, price'.v) :
                                     results' = Append(results,
                                        [symbol |-> symbols[idx], price |-> price'.v,
                                         iv_rank |-> rank,
                                         atm_strike |-> atm_option.strike,
                                         expiry |-> atm_option.exp])

\* one iteration of the loop of scan_low_iv_opportunities
ScanLowSymbol ==
    /\ pc = "scan_low"
    /\ idx <= Len(symbols)
    /\ idx' = idx + 1
    /\ UNCHANGED <<pc, lessonVars, advVars, guideVars, mainVars, status, exp_calls, exp_puts,
                   call_rows, put_rows,
                   recommendation, message, printed, raised, symbols>>
    /\ \E quote \in ScanQuotes :
          /\ price' = get_stock_price(quote)
          /\ IF PriceSkipped(price', LOW_MIN_PRICE, LOW_MAX_PRICE)
             THEN /\ UNCHANGED <<bars, iv_rank, results>>
                  /\ caught' = IF quote.err THEN "price" ELSE "none"
             ELSE \E resp \in SampleBars :
                  \E rank \in {calculate_iv_rank(resp, DAYS)} :
                  /\ bars' = resp
                  /\ iv_rank' = rank
                  /\ IF LowRankSkipped(rank)
                     THEN /\ UNCHANGED results
                          /\ caught' = IF resp.err THEN "rank" ELSE "none"
                     ELSE \/ \* get_option_contracts raises: except, continue
                             /\ results' = AfterException(results)
                             /\ caught' = "chain"
                          \/ \E options \in ScanChains :
                             /\ caught' = "none"
                             /\ IF options = {}
                                THEN UNCHANGED results
                                ELSE \E atm_option \in ArgMinStrike(options, price'.v) :
                                     results' = Append(results,
                                        [symbol |-> symbols[idx], price |-> price'.v,
                                         iv_rank |-> rank,
                                         atm_strike |-> atm_option.strike,
                                         expiry |-> atm_option.exp])

\* after the loop: the empty message, or the sorted table of the top rows
ScanFinish ==
    /\ pc \in {"scan_high", "scan_low"}
    /\ idx > Len(symbols)
    /\ pc' = IF pc = "scan_high" THEN "scan_high_done" ELSE "scan_low_done"
    /\ IF results = <<>>
       THEN /\ message' = IF pc = "scan_high"
                           THEN "No high IV opportunities found"
                           ELSE "No low IV opportunities found"
            /\ UNCHANGED printed
       ELSE /\ printed' = IF pc = "scan_high" THEN HighPrinted(results)
                                              ELSE LowPrinted(results)
            /\ UNCHANGED message
    /\ UNCHANGED <<bars, iv_rank, lessonVars, advVars, guideVars, mainVars, price, status,
                   exp_calls, exp_puts, call_rows, put_rows,
                   recommendation, symbols, caught, idx, results, raised>>

\* a lesson is called on its own, or is the next one the menu calls
Called(name) ==
    \/ pc = "idle"
    \/ pc = "advanced_main" /\ todo # <<>> /\ Head(todo) = name

\* lesson_1_get_options_chain
Lesson1 ==
    /\ pc = "idle"
    /\ pc' = "lesson_1"
    /\ UNCHANGED <<bars, iv_rank, atm, scenarios, breakeven, scanVars, advVars,
                   price, status, exp_calls, exp_puts, call_rows, put_rows,
                   recommendation, itm_call, otm_call, premium, raised,
                   mainVars>>
    /\ \E cp \in QuotePrices, calls \in ChainResponses, puts \in ChainResponses :
          /\ current_price' = cp
          /\ IF calls \cup puts = {}
             THEN /\ message' = "No options found"
                  /\ UNCHANGED chain_rows
             ELSE LET first_expiry == FirstExpiration(calls \cup puts)
                  IN  /\ chain_rows' = ChainRows(ExpChain(calls, first_expiry),
                                                 ExpChain(puts, first_expiry), cp)
                      /\ message' = "none"

\* lesson_4_moneyness_comparison
Lesson4 ==
    /\ pc = "idle"
    /\ pc' = "lesson_4"
    /\ UNCHANGED <<bars, iv_rank, scenarios, breakeven, chainVars, scanVars,
                   advVars, chain_rows, premium, mainVars>>
    /\ \E cp \in QuotePrices, resp \in ChainResponses :
          /\ current_price' = cp
          /\ IF resp = {}
             THEN \* min() of an empty list
                  /\ raised' = "ValueError"
                  /\ UNCHANGED <<atm, itm_call, otm_call>>
             ELSE \E calls \in AscOrders(resp) :
                  /\ itm_call' = ItmExample(calls, cp)
                  /\ atm' = AtmOf(calls, cp)
                  /\ otm_call' = OtmExample(calls, cp)
                  /\ raised' = "none"

\* advanced_2_covered_call_strategy
Advanced2 ==
    /\ Called("advanced_2")
    /\ todo' = Rest(todo)
    /\ pc' = "advanced_2"
    /\ UNCHANGED <<bars, iv_rank, atm, scenarios, breakeven, scanVars,
                   price, status, exp_calls, exp_puts, call_rows, put_rows,
                   recommendation,
                   max_loss, raised, guideVars, choice, answer, orders>>
    /\ \E cp \in QuotePrices, chain \in AdvChains :
          /\ current_price' = cp
          /\ IF {c \in chain : c.strike > cp} = {}
             THEN /\ message' = "No suitable calls found"
                  /\ UNCHANGED <<strategy_table, example, est_premium,
                                 strategy_rows>>
             ELSE \E calls \in AscOrders({c \in chain : c.strike > cp}) :
                  LET shown == FirstK(calls, TABLE_ROWS)
                      example_call == calls[1]
                  IN  /\ strategy_table' =
                            [i \in 1..Len(shown) |-> CoveredTableRow(shown[i], cp)]
                      /\ example' = example_call
                      /\ est_premium' = CoveredPremium(example_call.strike - cp)
                      /\ strategy_rows' = CoveredScenarios(cp, example_call.strike)
                      /\ message' = "none"

\* advanced_3_protective_put_strategy
Advanced3 ==
    /\ Called("advanced_3")
    /\ todo' = Rest(todo)
    /\ pc' = "advanced_3"
    /\ UNCHANGED <<bars, iv_rank, atm, scenarios, breakeven, scanVars,
                   price, status, exp_calls, exp_puts, call_rows, put_rows,
                   recommendation, guideVars, choice, answer, orders>>
    /\ \E cp \in QuotePrices, chain \in AdvChains :
          /\ current_price' = cp
          /\ IF {c \in chain : c.strike < cp} = {}
             THEN /\ message' = "No suitable puts found"
                  /\ UNCHANGED <<strategy_table, example, est_premium,
                                 strategy_rows, max_loss, raised>>
             ELSE \E puts \in DescOrders({c \in chain : c.strike < cp}) :
                  LET shown == FirstK(puts, TABLE_ROWS)
                  IN  /\ strategy_table' =
                            [i \in 1..Len(shown) |-> ProtectiveTableRow(shown[i], cp)]
                      /\ message' = "none"
                      /\ IF Len(puts) < 3
                         THEN \* puts[2] of a list of one or two puts
                              /\ raised' = "IndexError"
                              /\ UNCHANGED <<example, est_premium, strategy_rows,
                                             max_loss>>
                         ELSE LET example_put == puts[3]
                                  est == ProtectiveExamplePremium(cp - example_put.strike)
                                  scs == ProtectiveScenarios(cp, example_put.strike)
                              IN  /\ example' = example_put
                                  /\ est_premium' = est
                                  /\ strategy_rows' =
                                        [i \in 1..Len(scs) |->
                                           ProtectiveRow(scs[i], cp,
                                                         example_put.strike, est)]
                                  \* KEY INSIGHTS is one print: it shows
                                  \* nothing when cost per day divides by 0
                                  /\ max_loss' = IF example_put.exp = 0 THEN 0
                                                 ELSE ProtectiveMaxLoss(cp,
                                                        example_put.strike, est)
                                  /\ raised' = IF example_put.exp = 0
                                               THEN "ZeroDivisionError"
                                               ELSE "none"

\* the menu of the advanced lessons reads the choice
AdvancedMain ==
    /\ pc = "idle"
    /\ choice = "none"
    /\ pc' = "advanced_main"
    /\ \E c \in AdvChoices :
          /\ choice' = c
          /\ todo' = Dispatch(c)
    /\ UNCHANGED <<bars, iv_rank, lessonVars, chainVars, scanVars, advVars,
                   guideVars, answer, orders, raised>>

\* advanced_1_greeks_explained, view_open_positions, risk_management_guidelines
AdvancedOther ==
    /\ pc = "advanced_main"
    /\ todo # <<>>
    /\ Head(todo) \in OtherLessons
    /\ pc' = Head(todo)
    /\ todo' = Tail(todo)
    /\ raised' \in OtherOutcomes(Head(todo))
    /\ UNCHANGED <<bars, iv_rank, lessonVars, chainVars, scanVars, advVars,
                   guideVars, choice, answer, orders>>

\* advanced_4_paper_trade_example
Advanced4 ==
    /\ Called("advanced_4")
    /\ pc' = "advanced_4"
    /\ todo' = Rest(todo)
    /\ UNCHANGED <<bars, iv_rank, scenarios, breakeven, scanVars, advVars,
                   guideVars, choice,
                   price, status, exp_calls, exp_puts, call_rows, put_rows,
                   recommendation>>
    /\ \E cp \in QuotePrices, calls \in ChainResponses :
          /\ current_price' = cp
          /\ IF calls = {}
             THEN \* min() of an empty list
                  /\ raised' = "ValueError"
                  /\ UNCHANGED <<atm, answer, orders, message>>
             ELSE \E atm_call \in ArgMinStrike(calls, cp), proceed \in Answers :
                  /\ atm' = atm_call
                  /\ answer' = proceed
                  /\ raised' = "none"
                  /\ IF LowerCase(proceed) # "yes"
                     THEN /\ message' = "Trade cancelled"
                          /\ UNCHANGED orders
                     ELSE \* submit_order is called; its exception is caught
                          /\ orders' = orders + 1
                          /\ message' \in {"ORDER SUBMITTED!",
                                           "Error placing order"}

\* a lesson returns to the menu, which goes on to the next lesson
NextLesson ==
    /\ pc \in {"advanced_1", "advanced_2", "advanced_3", "advanced_4",
               "view_open_positions", "risk_management_guidelines"}
    /\ choice # "none"
    /\ todo # <<>>
    /\ raised = "none"
    /\ pc' = "advanced_main"
    /\ current_price' = 0
    /\ atm' = NoContract
    /\ message' = "none"
    /\ strategy_table' = <<>>
    /\ example' = NoContract
    /\ est_premium' = Frac(0, 1)
    /\ strategy_rows' = <<>>
    /\ max_loss' = 0
    /\ UNCHANGED <<bars, iv_rank, scenarios, breakeven, scanVars, guideVars,
                   mainVars, raised,
                   price, status, exp_calls, exp_puts, call_rows, put_rows,
                   recommendation>>

\* main_menu reads '0': the loop is left by break
MenuExit ==
    /\ pc = "idle"
    /\ pc' = "main_menu_exit"
    /\ message' = "Happy trading!"
    /\ UNCHANGED <<bars, iv_rank, lessonVars, scanVars, advVars, guideVars,
                   mainVars, raised,
                   price, status, exp_calls, exp_puts, call_rows, put_rows,
                   recommendation>>

\* main_menu reads a choice it does not know
MenuInvalid ==
    /\ pc = "idle"
    /\ pc' = "invalid_choice"
    /\ message' = "Invalid choice. Please try again."
    /\ UNCHANGED <<bars, iv_rank, lessonVars, scanVars, advVars, guideVars,
                   mainVars, raised,
                   price, status, exp_calls, exp_puts, call_rows, put_rows,
                   recommendation>>

\* an exception of analyze_options_chain is caught neither there nor in
\* main_menu: it leaves the while loop and ends the program
MenuRaise ==
    /\ pc = "analyze_options_chain"
    /\ raised # "none"
    /\ pc' = "main_menu_raised"
    /\ UNCHANGED <<bars, iv_rank, lessonVars, chainVars, scanVars, advVars,
                   guideVars, mainVars, raised>>

\* the function returns (or its exception ends the script); locals are gone
Return ==
    /\ pc \notin {"idle", "scan_high", "scan_low",
                  "main_menu_exit", "main_menu_raised"}
    /\ ~(pc = "analyze_options_chain" /\ raised # "none")
    /\ pc' = "idle"
    /\ bars' = BarsError
    /\ iv_rank' = None
    /\ current_price' = 0
    /\ atm' = NoContract
    /\ scenarios' = <<>>
    /\ breakeven' = 0
    /\ raised' = "none"
    /\ price' = PriceNone
    /\ status' = "none"
    /\ exp_calls' = <<>>
    /\ exp_puts' = <<>>
    /\ call_rows' = <<>>
    /\ put_rows' = <<>>
    /\ recommendation' = "none"
    /\ message' = "none"
    /\ symbols' = <<>>
    /\ caught' = "none"
    /\ idx' = 0
    /\ results' = <<>>
    /\ printed' = <<>>
    /\ strategy_table' = <<>>
    /\ example' = NoContract
    /\ est_premium' = Frac(0, 1)
    /\ strategy_rows' = <<>>
    /\ max_loss' = 0
    /\ chain_rows' = <<>>
    /\ itm_call' = NoContract
    /\ otm_call' = NoContract
    /\ premium' = 0
    /\ choice' = "none"
    /\ todo' = <<>>
    /\ answer' = "none"
    /\ orders' = 0

Next ==
    \/ CalculateIVRank
    \/ AnalyzeOptionsChain
    \/ ScanStart
    \/ ScanHighSymbol
    \/ ScanLowSymbol
    \/ ScanFinish
    \/ Lesson2
    \/ Lesson1
    \/ Lesson4
    \/ Lesson3
    \/ MenuExit
    \/ MenuInvalid
    \/ MenuRaise
    \/ AdvancedMain
    \/ AdvancedOther
    \/ Advanced4
    \/ NextLesson
    \/ Advanced2
    \/ Advanced3
    \/ Return

Spec == Init /\ [][Next]_vars

(***************************************************************************)
(* The payoff rows of lessons 2 and 3 as a function of the strike, the     *)
(* premium and the stock price: the inputs are drawn in the initial state  *)
(* and each step evaluates one row.                                        *)
(***************************************************************************)
PayoffStrikes == {9700, 10000}
PayoffPremiums == {0, PREMIUM}
PayoffPrices == {9000, 9700, 10000, 10300, 10800, 11300}
\* most rows evaluated for one contract
MaxRows == 5

\* (profit_loss / premium) * 100 divides by the premium
RowRaises(prem) == prem = 0

PayoffInit ==
    /\ pc \in {"payoff_call", "payoff_put"}
    /\ atm \in [strike : PayoffStrikes, exp : {7}]
    /\ premium \in PayoffPremiums
    /\ scenarios = <<>>
    /\ raised = "none"
    /\ bars = BarsError
    /\ iv_rank = None
    /\ current_price = 0
    /\ breakeven = 0
    /\ price = PriceNone
    /\ status = "none"
    /\ exp_calls = <<>>
    /\ exp_puts = <<>>
    /\ call_rows = <<>>
    /\ put_rows = <<>>
    /\ recommendation = "none"
    /\ message = "none"
    /\ symbols = <<>>
    /\ caught = "none"
    /\ idx = 0
    /\ results = <<>>
    /\ printed = <<>>
    /\ strategy_table = <<>>
    /\ example = NoContract
    /\ est_premium = Frac(0, 1)
    /\ strategy_rows = <<>>
    /\ max_loss = 0
    /\ chain_rows = <<>>
    /\ itm_call = NoContract
    /\ otm_call = NoContract
    /\ choice = "none"
    /\ todo = <<>>
    /\ answer = "none"
    /\ orders = 0

\* one pass of the loop of lesson 2 over a stock price
EvaluateCall ==
    /\ pc = "payoff_call"
    /\ raised = "none"
    /\ Len(scenarios) < MaxRows
    /\ \E sp \in PayoffPrices :
          IF RowRaises(premium)
          THEN /\ raised' = "ZeroDivisionError"
               /\ UNCHANGED scenarios
          ELSE /\ scenarios' = Append(scenarios,
                     CallRow([scenario |-> "Stock at", stock_price |-> sp],
                             atm.strike, premium))
               /\ UNCHANGED raised
    /\ UNCHANGED <<pc, bars, iv_rank, current_price, atm, breakeven, chainVars,
                   scanVars, advVars, guideVars, mainVars>>

\* one pass of the loop of lesson 3 over a stock price
EvaluatePut ==
    /\ pc = "payoff_put"
    /\ raised = "none"
    /\ Len(scenarios) < MaxRows
    /\ \E sp \in PayoffPrices :
          IF RowRaises(premium)
          THEN /\ raised' = "ZeroDivisionError"
               /\ UNCHANGED scenarios
          ELSE /\ scenarios' = Append(scenarios,
                     PutRow([scenario |-> "Stock at", stock_price |-> sp],
                            atm.strike, premium))
               /\ UNCHANGED raised
    /\ UNCHANGED <<pc, bars, iv_rank, current_price, atm, breakeven, chainVars,
                   scanVars, advVars, guideVars, mainVars>>

PayoffNext ==
    \/ EvaluateCall
    \/ EvaluatePut

PayoffSpec == PayoffInit /\ [][PayoffNext]_vars

(***************************************************************************)
(* Properties.                                                             *)
(***************************************************************************)
Rows == {scenarios[i] : i \in 1..Len(scenarios)}

\* C1: every option value in the scenario tables is max(price - strike, 0)
\* for a call and max(strike - price, 0) for a put, and is never negative.
C1_IntrinsicValue ==
    \A r \in Rows :
        /\ r.option_value >= 0
        /\ pc = "lesson_2" =>
              /\ r.stock_price > atm.strike => r.option_value = r.stock_price - atm.strike
              /\ r.stock_price <= atm.strike => r.option_value = 0
        /\ pc = "lesson_3" =>
              /\ r.stock_price < atm.strike => r.option_value = atm.strike - r.stock_price
              /\ r.stock_price >= atm.strike => r.option_value = 0

\* a call table with a row below the strike and a row above it
C1_Witness ==
    /\ pc = "lesson_2"
    /\ \E r \in Rows : r.stock_price < atm.strike /\ r.option_value = 0
    /\ \E r \in Rows : r.stock_price > atm.strike /\ r.option_value > 0

\* C2 (as claimed): a call whose strike is strictly below the underlying
\* price is never labelled OTM by analyze_options_chain.
C2_CallBelowPriceNeverOTM ==
    pc = "analyze_options_chain" =>
        \A i \in 1..Len(call_rows) :
            call_rows[i].strike < price.v => call_rows[i].moneyness # "OTM"

\* C3: a rank that calculate_iv_rank returns lies in [0, 100].
C3_RankRange ==
    IsNum(iv_rank) => ~RankLT(iv_rank, 0) /\ ~RankGT(iv_rank, 100)

\* the recent window is more volatile than the whole history, so the
\* unclamped ratio is above 100 and the clamp acts
C3_Witness ==
    /\ pc = "calculate_iv_rank"
    /\ IsNum(iv_rank)
    /\ LET returns == Returns(bars.closes)
           ratio == VolRatio(LastK(returns, DAYS), returns)
       IN  ratio.kind = "num" /\ ratio.n > ratio.d

\* C4 (as claimed): a rank that was computed, 0 included, is not handled
\* like a failed estimation: the chain analyzer prints a status for it and
\* the low-IV scanner keeps a symbol whose rank is at most 50.
C4_ComputedRankNotHandledAsFailure ==
    LET computed == /\ IsNum(iv_rank)
                    /\ VarNum(Returns(bars.closes)) # 0
    IN  /\ (pc = "analyze_options_chain" /\ PriceTruthy(price) /\ computed)
              => status # "none"
        /\ (pc = "scan_low" /\ computed /\ ~RankGT(iv_rank, 50))
              => ~LowRankSkipped(iv_rank)

\* C5 (as claimed): with fewer than 21 closes (fewer than 20 returns) the
\* estimator returns no number.
C5_UndefinedBelow20Returns ==
    (~bars.err /\ Len(bars.closes) - 1 < 20) => ~IsNum(iv_rank)

\* C6 (as claimed): with fewer than max(2 * N, 20) closes the estimator
\* returns no number.
C6_UndefinedBelowTwiceWindow ==
    (~bars.err /\ Len(bars.closes) < PyMax(2 * DAYS, 20)) => ~IsNum(iv_rank)

\* C7: with fewer than 20 closes, the empty history included, the
\* estimator returns no number.
C7_NoRankBelow20Closes ==
    (~bars.err /\ Len(bars.closes) < 20) => iv_rank = None

\* a history of 19 closes that is not flat was given and no rank returned
C7_Witness ==
    /\ pc = "calculate_iv_rank"
    /\ ~bars.err
    /\ Len(bars.closes) = 19
    /\ \E i \in 1..18 : bars.closes[i] # bars.closes[i + 1]
    /\ iv_rank = None

\* C8: in the long-call table profit_loss is non-decreasing in the
\* hypothetical price.
C8_CallMonotonic ==
    pc = "lesson_2" =>
        \A r1, r2 \in Rows :
            r1.stock_price <= r2.stock_price => r1.profit_loss <= r2.profit_loss

\* a call table with two prices below the strike and two above it
C8_Witness ==
    /\ pc = "lesson_2"
    /\ \E r1, r2 \in Rows :
          r1.stock_price < r2.stock_price /\ r2.stock_price < atm.strike
    /\ \E r1, r2 \in Rows :
          /\ atm.strike < r1.stock_price /\ r1.stock_price < r2.stock_price
          /\ r1.profit_loss < r2.profit_loss

\* C9: in the long-put table profit_loss is non-increasing in the
\* hypothetical price.
C9_PutMonotonic ==
    pc = "lesson_3" =>
        \A r1, r2 \in Rows :
            r1.stock_price <= r2.stock_price => r1.profit_loss >= r2.profit_loss

\* a put table with two prices above the strike and two below it
C9_Witness ==
    /\ pc = "lesson_3"
    /\ \E r1, r2 \in Rows :
          atm.strike < r1.stock_price /\ r1.stock_price < r2.stock_price
    /\ \E r1, r2 \in Rows :
          /\ r1.stock_price < r2.stock_price /\ r2.stock_price < atm.strike
          /\ r1.profit_loss > r2.profit_loss

\* C10: the breakeven is strike + premium for the call and strike - premium
\* for the put, and the table's row at the breakeven price has
\* profit_loss = 0.
C10_BreakevenZero ==
    (pc \in {"lesson_2", "lesson_3"} /\ raised = "none") =>
        /\ pc = "lesson_2" => breakeven - atm.strike = PREMIUM
        /\ pc = "lesson_3" => atm.strike - breakeven = PREMIUM
        /\ \E r \in Rows : r.stock_price = breakeven
        /\ \A r \in Rows : r.stock_price = breakeven => r.profit_loss = 0

\* a call table whose breakeven row has a positive option value
C10_Witness ==
    /\ pc = "lesson_2"
    /\ raised = "none"
    /\ \E r \in Rows :
          r.stock_price = breakeven /\ r.option_value > 0 /\ r.profit_loss = 0

\* every premium estimated by the strategy lesson that is running
EstimatedPremiums ==
    {strategy_table[i].est_premium : i \in DOMAIN strategy_table}
        \cup (IF example # NoContract THEN {est_premium} ELSE {})

\* C11: at every estimation site (covered-call table and example,
\* protective-put table and example) the estimated premium is strictly
\* positive and at least the floor of its estimator ($50 per contract for
\* the covered call, $100 per contract for the protective put).
C11_PremiumAtLeastFloor ==
    /\ pc = "advanced_2" =>
          \A e \in EstimatedPremiums : e.num > 0 /\ FracGE(e, Frac(5000, 1))
    /\ pc = "advanced_3" =>
          \A e \in EstimatedPremiums : e.num > 0 /\ FracGE(e, Frac(10000, 1))

\* a covered-call table with one estimate at the floor and one above it
C11_Witness ==
    /\ pc = "advanced_2"
    /\ example # NoContract
    /\ \E i \in DOMAIN strategy_table :
          /\ strategy_table[i].distance * 10 < 5000
          /\ strategy_table[i].est_premium = Frac(5000, 1)
    /\ \E i \in DOMAIN strategy_table :
          strategy_table[i].est_premium.num > 5000

\* C12: every place estimates the premium of a contract with the same
\* formula, time term included, so the protective-put example shows for its
\* put the estimate the table shows for that put.
C12_SameContractSameEstimate ==
    (pc = "advanced_3" /\ example # NoContract) =>
        \A i \in DOMAIN strategy_table :
            (strategy_table[i].strike = example.strike
                /\ strategy_table[i].exp = example.exp)
            => FracEq(strategy_table[i].est_premium, est_premium)

\* C16: each protective-put scenario row has net P/L = stock P/L + put
\* intrinsic value - premium (per 100 shares), and no row is below
\* -((entry - strike) * 100 + premium), the printed Max Loss.
C16_ProtectivePutFloor ==
    (pc = "advanced_3" /\ example # NoContract) =>
        /\ max_loss = (current_price - example.strike) * 100 + est_premium.num
        /\ \A i \in DOMAIN strategy_rows :
              LET r == strategy_rows[i] IN
              /\ r.stock_pl = (r.price - current_price) * 100
              /\ r.price >= example.strike => r.put_value = 0
              /\ r.price < example.strike
                    => r.put_value = (example.strike - r.price) * 100
              /\ r.net_pl = r.stock_pl + r.put_value - est_premium.num
              /\ r.net_pl >= -max_loss

\* a protective-put example with a row below the strike that sits exactly on
\* the floor and a row above the strike that is above the floor
C16_Witness ==
    /\ pc = "advanced_3"
    /\ example # NoContract
    /\ \E i \in DOMAIN strategy_rows :
          /\ strategy_rows[i].price < example.strike
          /\ strategy_rows[i].put_value > 0
          /\ strategy_rows[i].net_pl = -max_loss
    /\ \E i \in DOMAIN strategy_rows :
          /\ strategy_rows[i].price > example.strike
          /\ strategy_rows[i].net_pl > 0

\* min($2, 0.5% of the price), times 1000
Epsilon1000(p) == IF 200 * 1000 < p * 5 THEN 200 * 1000 ELSE p * 5

\* C13: put moneyness is the inverse of call moneyness; in particular no
\* put whose strike is above the price by epsilon or more is labelled OTM.
C13_PutAbovePriceNeverOTM ==
    pc = "analyze_options_chain" =>
        \A i \in DOMAIN put_rows :
            (put_rows[i].strike - price.v) * 1000 >= Epsilon1000(price.v)
                => put_rows[i].moneyness # "OTM"

\* C15 as stated: the signed distance of a row is price - strike for a call
\* and strike - price for a put.
C15_DistancePriceMinusStrike ==
    pc = "analyze_options_chain" =>
        /\ \A i \in DOMAIN call_rows :
              call_rows[i].distance = price.v - call_rows[i].strike
        /\ \A i \in DOMAIN put_rows :
              put_rows[i].distance = put_rows[i].strike - price.v

\* C15 amended: the signed distance of a row is strike - price for a call
\* and price - strike for a put; it is negative exactly when the contract
\* has intrinsic value at the price.
C15_SignedDistance ==
    pc = "analyze_options_chain" =>
        /\ \A i \in DOMAIN call_rows :
              /\ call_rows[i].distance = call_rows[i].strike - price.v
              /\ call_rows[i].distance < 0
                    <=> CallValue(price.v, call_rows[i].strike) > 0
        /\ \A i \in DOMAIN put_rows :
              /\ put_rows[i].distance = price.v - put_rows[i].strike
              /\ put_rows[i].distance < 0
                    <=> PutValue(price.v, put_rows[i].strike) > 0

\* rows of both signs for calls and a put row with intrinsic value
C15_Witness ==
    /\ pc = "analyze_options_chain"
    /\ \E i \in DOMAIN call_rows : call_rows[i].distance < 0
    /\ \E i \in DOMAIN call_rows : call_rows[i].distance > 0
    /\ \E i \in DOMAIN put_rows : put_rows[i].distance < 0

\* C19: classifying a contract whose strike is zero or negative fails with
\* InvalidContract.
C19_NonPositiveStrikeFails ==
    (pc = "analyze_options_chain"
        /\ \E i \in DOMAIN exp_calls : exp_calls[i].strike <= 0)
    => raised = "InvalidContract"

\* C14: at every place that marks or labels a contract as at the money, the
\* contract is ATM exactly when |strike - price| < epsilon, with
\* epsilon = min($2, 0.5% of the price).
C14_AtmWithinEpsilon ==
    /\ pc = "analyze_options_chain" =>
          /\ \A i \in DOMAIN call_rows :
                call_rows[i].moneyness = "ATM"
                  <=> Abs(call_rows[i].strike - price.v) * 1000 < Epsilon1000(price.v)
          /\ \A i \in DOMAIN put_rows :
                put_rows[i].moneyness = "ATM"
                  <=> Abs(put_rows[i].strike - price.v) * 1000 < Epsilon1000(price.v)
    /\ pc = "lesson_1" =>
          \A i \in DOMAIN chain_rows :
              /\ chain_rows[i].call_mark = "*"
                    <=> Abs(chain_rows[i].call_strike - current_price) * 1000
                            < Epsilon1000(current_price)
              /\ chain_rows[i].put_mark = "*"
                    <=> Abs(chain_rows[i].put_strike - current_price) * 1000
                            < Epsilon1000(current_price)
    /\ (pc = "lesson_4" /\ atm # NoContract) =>
          Abs(atm.strike - current_price) * 1000 < Epsilon1000(current_price)

C20_CallExample ==
    (pc = "payoff_call" /\ atm.strike = 10000 /\ premium = 300) =>
        \A i \in DOMAIN scenarios :
            LET r == scenarios[i] IN
            /\ r.stock_price = 9000  => r.profit_loss = -300
            /\ r.stock_price = 10000 => r.profit_loss = -300
            /\ r.stock_price = 10300 => r.profit_loss = 0
            /\ r.stock_price = 10800 => r.profit_loss = 500
            /\ r.stock_price = 11300 => r.profit_loss = 1000

\* the five prices of the example evaluated in order
C20_Witness ==
    /\ pc = "payoff_call"
    /\ atm.strike = 10000
    /\ premium = 300
    /\ Len(scenarios) = 5
    /\ [i \in 1..5 |-> scenarios[i].stock_price]
          = <<9000, 10000, 10300, 10800, 11300>>
    /\ [i \in 1..5 |-> scenarios[i].profit_loss]
          = <<-300, -300, 0, 500, 1000>>

\* C21: a long put with strike $100 and premium $3 has profit_loss
\* -3, -3, -3, 0, 7 at the prices 113, 108, 100, 97, 90.
C21_PutExample ==
    (pc = "payoff_put" /\ atm.strike = 10000 /\ premium = 300) =>
        \A i \in DOMAIN scenarios :
            LET r == scenarios[i] IN
            /\ r.stock_price = 11300 => r.profit_loss = -300
            /\ r.stock_price = 10800 => r.profit_loss = -300
            /\ r.stock_price = 10000 => r.profit_loss = -300
            /\ r.stock_price = 9700  => r.profit_loss = 0
            /\ r.stock_price = 9000  => r.profit_loss = 700

\* the five prices of the put example evaluated in order
C21_Witness ==
    /\ pc = "payoff_put"
    /\ atm.strike = 10000
    /\ premium = 300
    /\ Len(scenarios) = 5
    /\ [i \in 1..5 |-> scenarios[i].stock_price]
          = <<11300, 10800, 10000, 9700, 9000>>
    /\ [i \in 1..5 |-> scenarios[i].profit_loss]
          = <<-300, -300, -300, 0, 700>>

\* C22: when the last DAYS returns are more volatile than all returns (as
\* for 60 closes of which the first 30 are flat and the last 30 oscillate),
\* the ratio is above 100 before clamping and the returned rank is 100.
C22_ClampedAt100 ==
    (/\ pc = "calculate_iv_rank"
     /\ ~bars.err
     /\ Len(bars.closes) >= MIN_BARS
     /\ \A i \in 1..(Len(bars.closes) - 1) : bars.closes[i] # 0
     /\ LET returns == Returns(bars.closes)
            recent == LastK(returns, DAYS)
        IN  VarNum(recent) * VarDen(returns) > VarNum(returns) * VarDen(recent))
    => iv_rank = Num(1, 1)

\* 60 closes, the first 30 flat and the last 30 oscillating, rank 100
C22_Witness ==
    /\ pc = "calculate_iv_rank"
    /\ bars = BarsOk(History(60, 30, 0, 1, FALSE))
    /\ LET returns == Returns(bars.closes)
            recent == LastK(returns, DAYS)
       IN  VarNum(recent) * VarDen(returns) > VarNum(returns) * VarDen(recent)
    /\ iv_rank = Num(1, 1)

\* C30: with at least 20 and at most DAYS + 1 bars, whose returns are not
\* all equal, the rank is exactly 100; and a rank below 100 is returned
\* only for a history of more than DAYS + 1 bars.
C30_WholeWindowRank100 ==
    (pc = "calculate_iv_rank" /\ ~bars.err) =>
        /\ (/\ Len(bars.closes) >= MIN_BARS
            /\ Len(bars.closes) <= DAYS + 1
            /\ \A i \in 1..(Len(bars.closes) - 1) : bars.closes[i] # 0
            /\ VarNum(Returns(bars.closes)) # 0)
           => iv_rank = Num(1, 1)
        /\ (IsNum(iv_rank) /\ RankLT(iv_rank, 100))
           => Len(bars.closes) > DAYS + 1

\* C23: submit_order is called at most once in a run, only inside
\* advanced_4_paper_trade_example and only after the answer "yes" in any
\* letter case; any other answer submits nothing, and choice 7 (run all
\* advanced lessons) never submits an order.
C23_OrderOnlyAfterYes ==
    /\ orders <= 1
    /\ orders = 1 => pc = "advanced_4" /\ answer \in {"yes", "YES", "Yes"}
    /\ (pc = "advanced_4" /\ answer \notin {"yes", "YES", "Yes"}) => orders = 0
    /\ choice = "7" => orders = 0

\* the paper trade chosen at the menu and confirmed with "YES"
C23_Witness ==
    /\ pc = "advanced_4"
    /\ choice = "4"
    /\ answer = "YES"
    /\ orders = 1

\* C27: analyze_options_chain completes without raising whenever the calls
\* or the puts of the first expiration exist: the recommendations never use
\* an ATM call or ATM put that does not exist.
C27_RecommendationNeverRaises ==
    (pc = "analyze_options_chain" /\ Len(exp_calls) + Len(exp_puts) > 0)
        => raised = "none"

\* C28: advanced_3_protective_put_strategy selects its example put and
\* builds the scenario table whenever a put with a strike below the
\* current price exists, also for a list of one or two puts.
C28_ExampleForAnyPuts ==
    (pc = "advanced_3" /\ strategy_table # <<>>)
        => /\ raised = "none"
           /\ example # NoContract
           /\ strategy_rows # <<>>

\* C29: the printed IV status and the recommendation block agree: HIGH or
\* VERY HIGH is followed by the high-IV block, LOW by the low-IV block and
\* MEDIUM by the medium block.
C29_StatusMatchesRecommendation ==
    (pc = "analyze_options_chain" /\ status # "none"
        /\ recommendation # "none")
    => /\ status \in {"HIGH", "VERY HIGH"} => recommendation = "HIGH"
       /\ status = "LOW" => recommendation = "LOW"
       /\ status = "MEDIUM" => recommendation = "MEDIUM"

\* C26: main_menu ends only when the user enters '0'; after any other
\* input, a choice whose action fails included, the menu is shown again.
C26_MenuEndsOnlyOnZero ==
    pc \in {"main_menu_exit", "main_menu_raised"} => pc = "main_menu_exit"

\* C24: every row printed by scan_high_iv_opportunities belongs to a
\* scanned symbol with min_price <= price <= max_price and a rank of at
\* least 50; the rows are in non-increasing rank order, at most 10, and
\* no symbol appears in two rows.
C24_HighRows ==
    pc = "scan_high_done" =>
        /\ \A i \in DOMAIN printed :
              /\ \E k \in DOMAIN symbols : symbols[k] = printed[i].symbol
              /\ printed[i].price >= HIGH_MIN_PRICE
              /\ printed[i].price <= HIGH_MAX_PRICE
              /\ ~RankLT(printed[i].iv_rank, 50)
        /\ \A i, j \in DOMAIN printed :
              i < j => ~RankLess(printed[i].iv_rank, printed[j].iv_rank)
        /\ Len(printed) <= 10
        /\ \A i, j \in DOMAIN printed :
              i # j => printed[i].symbol # printed[j].symbol

\* C25: when the price lookup, the rank estimation or the chain request
\* fails for a symbol, the scan goes on with the next symbol and the
\* results collected so far are unchanged; a scan ends only after the last
\* symbol.
C25_FailureIsolated ==
    [][/\ (pc \in {"scan_high", "scan_low"} /\ idx' # idx /\ caught' # "none")
            => /\ pc' = pc
               /\ idx' = idx + 1
               /\ results' = results
               /\ symbols' = symbols
       /\ (pc \in {"scan_high", "scan_low"} /\ pc' # pc)
            => idx > Len(symbols)]_vars

\* the chain request of a later symbol failed after a result was kept
C25_Witness ==
    /\ pc \in {"scan_high", "scan_low"}
    /\ caught = "chain"
    /\ Len(results) >= 1
    /\ idx > 2

====
